---- MODULE Spec2Model ----
(***************************************************************************)
(* cert-sync: the SecretReconciler that copies cert-manager TLS secrets    *)
(* into AWS Certificate Manager.  Two builds of the controller are in the  *)
(* repository: the 72h-lookahead controller (src/unnamed/part_000) and the *)
(* strict-expiry controller (src/controllers/secret_controller.go).        *)
(* Time is counted in minutes.                                             *)
(***************************************************************************)
EXTENDS Integers, Sequences, FiniteSets, TLC

VARIABLES
    variant,     \* which controller build runs: "lookahead" or "strict"
    workers,     \* number of reconciliations that may run at once
    reliable,    \* TRUE when no call to the store or to ACM fails for a cause of its own
    now,         \* wall clock, minutes
    catalog,     \* ACM: the sequence of certificate records, in listing order
    store,       \* the secret store: name -> Secret, or NoSecret when absent
    pc,          \* per reconciliation: position in Reconcile
    req,         \* per reconciliation: req.NamespacedName
    got,         \* per reconciliation: what r.Get answered
    secret,      \* per reconciliation: the fetched corev1.Secret
    domainName,  \* per reconciliation: the common-name annotation
    token,       \* paginator: number of summaries already paged (NextToken)
    more,        \* paginator: HasMorePages()
    items,       \* summaries (ARNs) of the current page not yet described
    located,     \* findSecretByDomain: "pending", or returned "found", "absent", "error"
    existing,    \* existingCertificate: <<>> (nil) or <<detail>>
    bundle,      \* result of splitCertificateChain
    decidedAt,   \* <<>> or <<time.Now() read by the expiry test>>
    result,      \* what Reconcile returned: [requeueAfter, err]
    calls,       \* remote calls issued by the current reconciliation, in order
    catalog0,    \* the catalog as it was when the reconciliation began
    created      \* per secret name: the records ACM has created for its imports

vars == <<variant, workers, reliable, now, catalog, store, pc, req, got, secret,
          domainName, token, more, items, located, existing, bundle, decidedAt, result,
          calls, catalog0, created>>

----------------------------------------------------------------------------
(* Bounds of the model *)

MaxCatalog == 2
PageSize == 1
MaxNow == 1
MaxPem == 3

Procs == {1, 2}

----------------------------------------------------------------------------
(* Program constants *)

Lookahead == 4320
ShortRetry == 5
LongRecheck == 1440
NoRequeue == 0

SyncAnnotation == "sync-to-acm"
CommonNameAnnotation == "cert-manager.io/common-name"
SecretTypeTLS == "kubernetes.io/tls"
TagKey == "kubernetes-secrets"

NoErr == [step |-> "none", cause |-> "none"]
Err(step, cause) == [step |-> step, cause |-> cause]
Result(after, err) == [requeueAfter |-> after, err |-> err]

----------------------------------------------------------------------------
(* PEM data.  A PEM byte sequence is modelled as the sequence of its parts: *)
(* a part is a PEM block [Type, Bytes] or text between blocks (Type "#text") *)
(* which pem.Decode skips.                                                   *)

PemBlock(type, bytes) == [Type |-> type, Bytes |-> bytes]
PemText == PemBlock("#text", "junk")

\* encoding/pem Decode: the first block of the data and what follows it; when
\* the data holds no block, block = <<>> (nil) and rest is the whole input
pemDecode(data) ==
    LET blocks == { i \in 1..Len(data) : data[i].Type # "#text" } IN
    IF blocks = {} THEN [block |-> <<>>, rest |-> data]
    ELSE LET first == CHOOSE i \in blocks : \A j \in blocks : i <= j
         IN [block |-> <<data[first]>>, rest |-> SubSeq(data, first + 1, Len(data))]

\* encoding/pem EncodeToMemory: the bytes of one block
pemEncodeToMemory(block) == <<block>>

RECURSIVE decodeCertBlocks(_, _)
\* the decode loop of splitCertificateChain: certBlocks after reading `rest`
decodeCertBlocks(rest, certBlocks) ==
    LET d == pemDecode(rest) IN
    IF d.block = <<>> THEN certBlocks
    ELSE IF d.block[1].Type = "CERTIFICATE"
         THEN decodeCertBlocks(d.rest, Append(certBlocks, d.block[1]))
         ELSE decodeCertBlocks(d.rest, certBlocks)

RECURSIVE encodeAll(_)
encodeAll(blocks) ==
    IF blocks = <<>> THEN <<>>
    ELSE pemEncodeToMemory(Head(blocks)) \o encodeAll(Tail(blocks))

\* splitCertificateChain taking the first PEM block of the data as the leaf,
\* whatever its type
splitCertificateChain_leafIsFirstBlock(certChainPEM) ==
    LET certBlocks == decodeCertBlocks(certChainPEM, <<>>) IN
    IF Len(certBlocks) = 0
    THEN [leafCertPEM |-> <<>>, chainPEM |-> <<>>,
          err |-> Err("split", "no certificates found in PEM data")]
    ELSE [leafCertPEM |-> pemEncodeToMemory(pemDecode(certChainPEM).block[1]),
          chainPEM |-> IF Len(certBlocks) > 1 THEN encodeAll(Tail(certBlocks)) ELSE <<>>,
          err |-> NoErr]

splitCertificateChain(certChainPEM) ==
    LET certBlocks == decodeCertBlocks(certChainPEM, <<>>) IN
    IF Len(certBlocks) = 0
    THEN [leafCertPEM |-> <<>>, chainPEM |-> <<>>,
          err |-> Err("split", "no certificates found in PEM data")]
    ELSE [leafCertPEM |-> pemEncodeToMemory(certBlocks[1]),
          chainPEM |-> IF Len(certBlocks) > 1 THEN encodeAll(Tail(certBlocks)) ELSE <<>>,
          err |-> NoErr]

NoBundle == [leafCertPEM |-> <<>>, chainPEM |-> <<>>, err |-> NoErr]

----------------------------------------------------------------------------
(* Secrets *)

\* Annotations are a map, modelled as a set of <<key, value>> pairs
HasKey(annotations, key) == \E kv \in annotations : kv[1] = key

\* Go map lookup: the value, or "" for a missing key
Lookup(annotations, key) ==
    IF HasKey(annotations, key)
    THEN (CHOOSE kv \in annotations : kv[1] = key)[2]
    ELSE ""

\* Eligible without the test for an empty common-name annotation
Eligible_noEmptyDomainTest(s) ==
    /\ Lookup(s.Annotations, SyncAnnotation) = "true"
    /\ s.Type = SecretTypeTLS
    /\ HasKey(s.Annotations, CommonNameAnnotation)

\* Eligible with a fourth check: tls.crt holds a CERTIFICATE block
Eligible_requiresCertificate(s) ==
    /\ Lookup(s.Annotations, SyncAnnotation) = "true"
    /\ s.Type = SecretTypeTLS
    /\ HasKey(s.Annotations, CommonNameAnnotation)
    /\ Lookup(s.Annotations, CommonNameAnnotation) # ""
    /\ decodeCertBlocks(s.Data.crt, <<>>) # <<>>

\* the three checks of Reconcile between the fetch and the Locator
Eligible(s) ==
    /\ Lookup(s.Annotations, SyncAnnotation) = "true"
    /\ s.Type = SecretTypeTLS
    /\ HasKey(s.Annotations, CommonNameAnnotation)
    /\ Lookup(s.Annotations, CommonNameAnnotation) # ""

\* OwnershipTag without the secret's name
OwnershipTag_namespaceOnly(s) == [Key |-> TagKey, Value |-> s.Namespace]

OwnershipTag(s) == [Key |-> TagKey, Value |-> s.Namespace \o "/" \o s.Name]

\* The certificate bundles a secret's tls.crt may hold
LeafSAN == PemBlock("CERTIFICATE", "leaf-san")
LeafCN == PemBlock("CERTIFICATE", "leaf-cn")
IssuerCA == PemBlock("CERTIFICATE", "issuer-ca")
KeyBlock == PemBlock("PRIVATE KEY", "key")

PemInputs ==
    { <<LeafSAN>>,
      <<LeafSAN, IssuerCA>>,
      <<PemText, KeyBlock, LeafCN, PemText, IssuerCA>>,
      <<PemText, KeyBlock>> }

\* The parts a PEM byte sequence is made of, and the sequences of at most n
PemParts == {LeafSAN, LeafCN, IssuerCA, KeyBlock, PemText}

PemSeqs(n) == UNION { [1..k -> PemParts] : k \in 0..n }

MkSecret(name, type, annotations, crt) ==
    [Namespace |-> "ns", Name |-> name, Type |-> type,
     Annotations |-> annotations, Data |-> [crt |-> crt, key |-> <<KeyBlock>>]]

\* The secrets the store may hold under a name: secrets failing one of the
\* eligibility checks or all of them, and eligible secrets
SecretInputs(name) ==
    { MkSecret(name, SecretTypeTLS, ann, <<LeafSAN>>) :
        ann \in { {<<CommonNameAnnotation, "d1">>},
                  {<<SyncAnnotation, "false">>, <<CommonNameAnnotation, "d1">>},
                  {<<SyncAnnotation, "true">>},
                  {<<SyncAnnotation, "true">>, <<CommonNameAnnotation, "">>} } }
    \cup
    { MkSecret(name, "Opaque", ann, <<LeafSAN>>) :
        ann \in { {<<SyncAnnotation, "true">>, <<CommonNameAnnotation, "d1">>}, {} } }
    \cup
    { MkSecret(name, SecretTypeTLS,
               {<<SyncAnnotation, "true">>, <<CommonNameAnnotation, "d1">>}, crt) :
        crt \in PemInputs }
    \cup
    { MkSecret(name, SecretTypeTLS,
               {<<SyncAnnotation, "true">>, <<CommonNameAnnotation, "d2">>}, <<LeafSAN>>) }

\* the zero value of corev1.Secret: what `var secret` holds before r.Get fills it
NoSecret ==
    [Namespace |-> "", Name |-> "", Type |-> "",
     Annotations |-> {}, Data |-> [crt |-> <<>>, key |-> <<>>]]

Names == {"a", "b"}

EligibleAnnotations(domain) ==
    {<<SyncAnnotation, "true">>, <<CommonNameAnnotation, domain>>}

\* The stores a single worker is checked against: secret "a" is any input or
\* absent, secret "b" is absent
StoreInputs ==
    { [n \in Names |-> IF n = "a" THEN s ELSE NoSecret] :
        s \in SecretInputs("a") \cup {NoSecret} }

\* Two secrets for one domain, reconciled one after the other: the leaf of
\* secret "a" lists the domain among its alternate names or does not
PairedStores ==
    { [n \in Names |-> IF n = "a" THEN MkSecret("a", SecretTypeTLS, EligibleAnnotations("d1"), crt)
                       ELSE MkSecret("b", SecretTypeTLS, EligibleAnnotations("d1"), <<LeafSAN>>)] :
        crt \in {<<LeafSAN>>, <<LeafCN, IssuerCA>>} }

----------------------------------------------------------------------------
(* The remote service (ACM) *)

\* what ACM reads out of an imported certificate
CertSubject(bytes) ==
    CASE bytes = "leaf-san" -> [cn |-> "d1", sans |-> {"d1"}]
      [] bytes = "leaf-cn" -> [cn |-> "d1", sans |-> {}]
      [] OTHER -> [cn |-> "ca", sans |-> {}]

Record(arn, domain, sans, notAfter, status, eku, tags) ==
    [arn |-> arn, domain |-> domain, sans |-> sans, notAfter |-> notAfter,
     status |-> status, eku |-> eku, tags |-> tags]

ListedStatuses == {"ISSUED", "INACTIVE", "EXPIRED", "REVOKED"}
ListedUsages == {"TLS_WEB_CLIENT_AUTHENTICATION", "TLS_WEB_SERVER_AUTHENTICATION"}

\* the server-side filter of ListCertificatesInput
Listed(rec) == rec.status \in ListedStatuses /\ rec.eku \in ListedUsages

Candidates(cat) == SelectSeq(cat, Listed)

Min(a, b) == IF a < b THEN a ELSE b

\* PageOf without the NextToken: every page starts at the first summary
PageOf_restartsListing(cat, tok) ==
    LET c == Candidates(cat) IN
    [arns |-> [i \in 1..Min(Len(c), PageSize) |-> c[i].arn],
     more |-> tok + PageSize < Len(c)]

\* ListCertificates: the page that starts after `tok` summaries
PageOf(cat, tok) ==
    LET c == Candidates(cat) IN
    [arns |-> [i \in 1..(Min(Len(c), tok + PageSize) - Min(Len(c), tok)) |->
                  c[Min(Len(c), tok) + i].arn],
     more |-> tok + PageSize < Len(c)]

IndexOfArn(cat, arn) == CHOOSE i \in 1..Len(cat) : cat[i].arn = arn
HasArn(cat, arn) == \E i \in 1..Len(cat) : cat[i].arn = arn

\* DescribeCertificate: the CertificateDetail of a record.  DomainName is a
\* *string: a pointer into the response, with an address of its own.
Detail(rec) ==
    [CertificateArn |-> rec.arn,
     DomainName |-> [addr |-> <<"response", rec.arn>>, val |-> rec.domain],
     SubjectAlternativeNames |-> rec.sans,
     NotAfter |-> rec.notAfter]

\* the expiry ACM records for an imported certificate: beyond every lookahead
\* the model's clock can reach
CertNotAfter(bytes) == Lookahead + MaxNow + 1

\* ImportCertificate validates its input: the Certificate field must start
\* with a certificate, a replaced record must exist, a new one needs quota
ImportAccepts(cat, input) ==
    /\ input.Certificate # <<>>
    /\ Head(input.Certificate).Type = "CERTIFICATE"
    /\ IF input.CertificateArn = <<>>
       THEN Len(cat) < MaxCatalog
       ELSE HasArn(cat, input.CertificateArn[1])

\* ImportCertificate: without CertificateArn a new record is added, with one
\* the material of that record is replaced in place
ImportCertificate(cat, input) ==
    LET leaf == Head(input.Certificate).Bytes
        subj == CertSubject(leaf)
    IN IF input.CertificateArn = <<>>
       THEN Append(cat, Record(Len(cat) + 1, subj.cn, subj.sans, <<CertNotAfter(leaf)>>,
                               "ISSUED", "TLS_WEB_SERVER_AUTHENTICATION", input.Tags))
       ELSE LET i == IndexOfArn(cat, input.CertificateArn[1]) IN
            [cat EXCEPT ![i] = Record(cat[i].arn, subj.cn, subj.sans, <<CertNotAfter(leaf)>>,
                                      "ISSUED", cat[i].eku, input.Tags)]

\* The records ACM may hold before the controller runs
RecordInputs ==
    { Record(0, "d2", {"d1"}, e, "ISSUED", "TLS_WEB_SERVER_AUTHENTICATION", <<>>) :
        e \in { <<>>, <<0>>, <<LongRecheck>>, <<Lookahead>>, <<Lookahead + 1>> } }
    \cup
    { Record(0, "d1", {}, e, "ISSUED", "TLS_WEB_CLIENT_AUTHENTICATION", <<>>) :
        e \in { <<0>>, <<Lookahead + 1>> } }
    \cup
    { Record(0, "d2", {}, <<0>>, "EXPIRED", "TLS_WEB_SERVER_AUTHENTICATION", <<>>),
      Record(0, "d1", {"d1"}, <<0>>, "PENDING_VALIDATION", "TLS_WEB_SERVER_AUTHENTICATION", <<>>),
      Record(0, "d1", {"d1"}, <<0>>, "ISSUED", "CODE_SIGNING", <<>>) }

CatalogsOfLen(n) ==
    { [i \in 1..n |-> [f[i] EXCEPT !.arn = i]] : f \in [1..n -> RecordInputs] }

CatalogInputs == UNION { CatalogsOfLen(n) : n \in 0..MaxCatalog }

----------------------------------------------------------------------------
(* The controller *)

Variants == {"lookahead", "strict"}

\* Go's == on two *string values compares the addresses, not the strings
PtrEq(a, b) == a.addr = b.addr

\* &domainName: the address of findSecretByDomain's parameter in invocation p
AddrOfDomainName(p, name) == [addr |-> <<"param", p>>, val |-> name]

\* the two tests of findSecretByDomain on one certificate detail
Matches(certDetail, domainPtr) ==
    \/ PtrEq(certDetail.DomainName, domainPtr)
    \/ \E san \in certDetail.SubjectAlternativeNames : san = domainPtr.val

\* NeedsUpdate without the comparison of the expiry with the clock
NeedsUpdate_anyExpiry(v, certDetail, t) == certDetail.NotAfter # <<>>

\* NeedsUpdate without the lookahead: a record is replaced once it has expired
NeedsUpdate_strictExpiry(v, certDetail, t) ==
    /\ certDetail.NotAfter # <<>>
    /\ certDetail.NotAfter[1] < t

\* NotAfter != nil && NotAfter.Before(time.Now().Add(72h)), and the
\* strict controller's NotAfter.Before(time.Now())
NeedsUpdate(v, certDetail, t) ==
    /\ certDetail.NotAfter # <<>>
    /\ IF v = "lookahead"
       THEN certDetail.NotAfter[1] < t + Lookahead
       ELSE certDetail.NotAfter[1] < t

\* FailResult without the RequeueAfter
FailResult_noRequeue(v, err) == Result(NoRequeue, err)

\* the ctrl.Result returned with an error by the steps from the Locator on
FailResult(v, err) ==
    Result(IF v = "lookahead" THEN ShortRetry ELSE NoRequeue, err)

\* the ctrl.Result returned at the end of a successful Reconcile
OkResult(v) ==
    Result(IF v = "lookahead" THEN LongRecheck ELSE NoRequeue, NoErr)

\* ExtractBundle without the split: tls.crt is handed on whole and no error
\* is raised
ExtractBundle_unsplit(v, s) ==
    [leafCertPEM |-> s.Data.crt, chainPEM |-> <<>>, err |-> NoErr]

\* the certificate material Reconcile hands to the upsert: the lookahead
\* controller splits tls.crt, the strict controller passes it whole
ExtractBundle(v, s) ==
    IF v = "lookahead"
    THEN splitCertificateChain(s.Data.crt)
    ELSE [leafCertPEM |-> s.Data.crt, chainPEM |-> <<>>, err |-> NoErr]

\* importToAcmInput with a CertificateArn set, as updateToAcm sets one
importToAcmInput_withArn(s, certPEM, chainPEM, keyPEM) ==
    [Certificate |-> certPEM, PrivateKey |-> keyPEM, CertificateChain |-> chainPEM,
     CertificateArn |-> <<0>>, Tags |-> <<OwnershipTag(s)>>]

importToAcmInput(s, certPEM, chainPEM, keyPEM) ==
    [Certificate |-> certPEM, PrivateKey |-> keyPEM, CertificateChain |-> chainPEM,
     CertificateArn |-> <<>>, Tags |-> <<OwnershipTag(s)>>]

updateToAcmInput(s, certificateArn, certPEM, chainPEM, keyPEM) ==
    [Certificate |-> certPEM, PrivateKey |-> keyPEM, CertificateChain |-> chainPEM,
     CertificateArn |-> <<certificateArn>>, Tags |-> <<OwnershipTag(s)>>]

\* Decision without the test of the Splitter's error
Decision_ignoresSplitError(v, found, b, t) ==
    IF found = <<>> THEN "CREATE"
    ELSE IF v = "strict" /\ found[1].NotAfter = <<>> THEN "PANIC"
    ELSE IF NeedsUpdate(v, found[1], t) THEN "REPLACE"
    ELSE "NO_OP"

\* the outcome of Reconcile once findSecretByDomain returned `found`, the
\* bundle was extracted as b and the clock reads t
Decision(v, found, b, t) ==
    IF b.err # NoErr THEN "FAIL"
    ELSE IF found = <<>> THEN "CREATE"
    ELSE IF v = "strict" /\ found[1].NotAfter = <<>> THEN "PANIC"
    ELSE IF NeedsUpdate(v, found[1], t) THEN "REPLACE"
    ELSE "NO_OP"

\* the ctrl.Result of the returns before the Locator
\* NotFoundResult without the errors.IsNotFound test: the error is returned
NotFoundResult_asError == Result(NoRequeue, Err("get", "failure"))

ClientErrorResult(err) == Result(NoRequeue, err)
NotFoundResult == Result(NoRequeue, NoErr)
GetErrorResult(err) == Result(NoRequeue, err)
SkipResult == Result(NoRequeue, NoErr)

Call(op, arn, input, ok) == [op |-> op, arn |-> arn, input |-> input, ok |-> ok]

Causes == {"failure", "canceled"}

Idle == {"idle", "done", "panic"}

InitLocals ==
    /\ pc = [p \in Procs |-> "idle"]
    /\ req = [p \in Procs |-> ""]
    /\ got = [p \in Procs |-> "none"]
    /\ secret = [p \in Procs |-> NoSecret]
    /\ domainName = [p \in Procs |-> ""]
    /\ token = [p \in Procs |-> 0]
    /\ more = [p \in Procs |-> FALSE]
    /\ items = [p \in Procs |-> <<>>]
    /\ located = [p \in Procs |-> "pending"]
    /\ existing = [p \in Procs |-> <<>>]
    /\ bundle = [p \in Procs |-> NoBundle]
    /\ decidedAt = [p \in Procs |-> <<>>]
    /\ result = [p \in Procs |-> Result(NoRequeue, NoErr)]
    /\ calls = [p \in Procs |-> <<>>]
    /\ catalog0 = [p \in Procs |-> <<>>]
    /\ created = [n \in Names |-> 0]

Init ==
    /\ variant \in Variants
    /\ workers = 1
    /\ reliable = FALSE
    /\ now = 0
    /\ catalog \in CatalogInputs
    /\ store \in StoreInputs
    /\ InitLocals

\* Reconcile returns: the position and the returned value
Return(p, res) ==
    /\ pc' = [pc EXCEPT ![p] = "done"]
    /\ result' = [result EXCEPT ![p] = res]

\* Reconcile is invoked for a request; NewACMClient succeeds or fails
Begin(p) ==
    /\ p <= workers
    /\ pc[p] \in Idle
    /\ \E name \in Names : req' = [req EXCEPT ![p] = name]
    /\ got' = [got EXCEPT ![p] = "none"]
    /\ secret' = [secret EXCEPT ![p] = NoSecret]
    /\ domainName' = [domainName EXCEPT ![p] = ""]
    /\ token' = [token EXCEPT ![p] = 0]
    /\ more' = [more EXCEPT ![p] = FALSE]
    /\ items' = [items EXCEPT ![p] = <<>>]
    /\ located' = [located EXCEPT ![p] = "pending"]
    /\ existing' = [existing EXCEPT ![p] = <<>>]
    /\ bundle' = [bundle EXCEPT ![p] = NoBundle]
    /\ decidedAt' = [decidedAt EXCEPT ![p] = <<>>]
    /\ calls' = [calls EXCEPT ![p] = <<>>]
    /\ catalog0' = [catalog0 EXCEPT ![p] = catalog]
    /\ \/ /\ pc' = [pc EXCEPT ![p] = "get"]
          /\ result' = [result EXCEPT ![p] = Result(NoRequeue, NoErr)]
       \/ /\ ~reliable
          /\ \E cause \in Causes : Return(p, ClientErrorResult(Err("client", cause)))
    /\ UNCHANGED <<variant, workers, reliable, now, catalog, store, created>>

\* r.Get and the eligibility checks
FetchSecret(p) ==
    /\ pc[p] = "get"
    /\ \/ /\ store[req[p]] = NoSecret
          /\ got' = [got EXCEPT ![p] = "notfound"]
          /\ Return(p, NotFoundResult)
          /\ UNCHANGED <<secret, domainName, more>>
       \/ /\ ~reliable
          /\ got' = [got EXCEPT ![p] = "error"]
          /\ \E cause \in Causes : Return(p, GetErrorResult(Err("get", cause)))
          /\ UNCHANGED <<secret, domainName, more>>
       \/ LET s == store[req[p]] IN
            /\ s # NoSecret
            /\ got' = [got EXCEPT ![p] = "found"]
            /\ secret' = [secret EXCEPT ![p] = s]
            /\ IF Eligible(s)
               THEN /\ domainName' = [domainName EXCEPT
                                        ![p] = Lookup(s.Annotations, CommonNameAnnotation)]
                    /\ more' = [more EXCEPT ![p] = TRUE]
                    /\ pc' = [pc EXCEPT ![p] = "list"]
                    /\ UNCHANGED result
               ELSE /\ Return(p, SkipResult)
                    /\ UNCHANGED <<domainName, more>>
    /\ UNCHANGED <<variant, workers, reliable, now, catalog, store, req, token, items,
                   located, existing, bundle, decidedAt, calls, catalog0, created>>

\* findSecretByDomain has returned `found` without error: the rest of
\* Reconcile up to the upsert call or the return
Decide(p, found) ==
    LET b == ExtractBundle(variant, secret[p])
        d == Decision(variant, found, b, now)
    IN
    /\ located' = [located EXCEPT ![p] = IF found = <<>> THEN "absent" ELSE "found"]
    /\ existing' = [existing EXCEPT ![p] = found]
    /\ bundle' = [bundle EXCEPT ![p] = b]
    /\ decidedAt' = [decidedAt EXCEPT
                       ![p] = IF /\ d \in {"REPLACE", "NO_OP"}
                                 /\ found # <<>>
                                 /\ found[1].NotAfter # <<>>
                              THEN <<now>> ELSE <<>>]
    /\ CASE d = "FAIL" -> Return(p, FailResult(variant, b.err))
         [] d = "CREATE" -> /\ pc' = [pc EXCEPT ![p] = "importToAcm"]
                            /\ UNCHANGED result
         [] d = "PANIC" -> \* the log call dereferences *existingCertificate.NotAfter
                /\ pc' = [pc EXCEPT ![p] = "panic"]
                /\ result' = [result EXCEPT ![p] =
                                Result(NoRequeue, Err("panic", "nil pointer dereference"))]
         [] d = "REPLACE" -> /\ pc' = [pc EXCEPT ![p] = "updateToAcm"]
                             /\ UNCHANGED result
         [] d = "NO_OP" -> Return(p, OkResult(variant))

\* the loops of findSecretByDomain move on from the summaries left in the page
Advance(p, left, hasMore) ==
    /\ items' = [items EXCEPT ![p] = left]
    /\ IF left # <<>>
       THEN /\ pc' = [pc EXCEPT ![p] = "describe"]
            /\ UNCHANGED <<located, existing, bundle, decidedAt, result>>
       ELSE IF hasMore
       THEN /\ pc' = [pc EXCEPT ![p] = "list"]
            /\ UNCHANGED <<located, existing, bundle, decidedAt, result>>
       ELSE Decide(p, <<>>)

\* findSecretByDomain returns (nil, err); Reconcile returns the error
LocatorFails(p, err) ==
    /\ located' = [located EXCEPT ![p] = "error"]
    /\ Return(p, FailResult(variant, err))

\* paginator.NextPage
NextPage(p) ==
    /\ pc[p] = "list"
    /\ more[p]
    /\ \/ \E cause \in Causes :
            /\ ~reliable
            /\ calls' = [calls EXCEPT ![p] = Append(@, Call("list", <<>>, <<>>, FALSE))]
            /\ LocatorFails(p, Err("list", cause))
            /\ UNCHANGED <<token, more, items, existing, bundle, decidedAt>>
       \/ LET page == PageOf(catalog, token[p]) IN
            /\ calls' = [calls EXCEPT ![p] = Append(@, Call("list", <<>>, <<>>, TRUE))]
            /\ token' = [token EXCEPT ![p] = @ + Len(page.arns)]
            /\ more' = [more EXCEPT ![p] = page.more]
            /\ Advance(p, page.arns, page.more)
    /\ UNCHANGED <<variant, workers, reliable, now, catalog, store, req, got, secret,
                   domainName, catalog0, created>>

\* acmClient.DescribeCertificate for the next summary, and the match tests
Describe(p) ==
    /\ pc[p] = "describe"
    /\ items[p] # <<>>
    /\ \/ \E cause \in Causes :
            /\ ~reliable
            /\ calls' = [calls EXCEPT
                           ![p] = Append(@, Call("describe", <<Head(items[p])>>, <<>>, FALSE))]
            /\ LocatorFails(p, Err("describe", cause))
            /\ UNCHANGED <<items, existing, bundle, decidedAt>>
       \/ LET certDetail == Detail(catalog[IndexOfArn(catalog, Head(items[p]))]) IN
            /\ calls' = [calls EXCEPT
                           ![p] = Append(@, Call("describe", <<Head(items[p])>>, <<>>, TRUE))]
            /\ IF Matches(certDetail, AddrOfDomainName(p, domainName[p]))
               THEN /\ Decide(p, <<certDetail>>)
                    /\ UNCHANGED items
               ELSE Advance(p, Tail(items[p]), more[p])
    /\ UNCHANGED <<variant, workers, reliable, now, catalog, store, req, got, secret,
                   domainName, token, more, catalog0, created>>

\* the ImportCertificateInput the pending upsert call sends
UpsertInput(p) ==
    IF pc[p] = "updateToAcm"
    THEN updateToAcmInput(secret[p], existing[p][1].CertificateArn,
                          bundle[p].leafCertPEM, bundle[p].chainPEM, secret[p].Data.key)
    ELSE importToAcmInput(secret[p], bundle[p].leafCertPEM, bundle[p].chainPEM,
                          secret[p].Data.key)

\* importToAcm / updateToAcm: acmClient.ImportCertificate and the return
Upsert(p) ==
    /\ pc[p] \in {"importToAcm", "updateToAcm"}
    /\ LET input == UpsertInput(p) IN
         \/ /\ ImportAccepts(catalog, input)
            /\ calls' = [calls EXCEPT
                           ![p] = Append(@, Call("import", input.CertificateArn, <<input>>, TRUE))]
            /\ catalog' = ImportCertificate(catalog, input)
            /\ created' = [created EXCEPT ![req[p]] = @ + Len(catalog') - Len(catalog)]
            /\ Return(p, OkResult(variant))
         \/ \E cause \in Causes :
              /\ ~reliable \/ ~ImportAccepts(catalog, input)
              /\ calls' = [calls EXCEPT
                             ![p] = Append(@, Call("import", input.CertificateArn, <<input>>, FALSE))]
              /\ Return(p, FailResult(variant, Err("import", cause)))
              /\ UNCHANGED <<catalog, created>>
    /\ UNCHANGED <<variant, workers, reliable, now, store, req, got, secret, domainName,
                   token, more, items, located, existing, bundle, decidedAt, catalog0>>

\* time passes
Tick ==
    /\ now < MaxNow
    /\ now' = now + 1
    /\ UNCHANGED <<variant, workers, reliable, catalog, store, pc, req, got, secret,
                   domainName, token, more, items, located, existing, bundle, decidedAt,
                   result, calls, catalog0, created>>

Next ==
    \/ \E p \in Procs : Begin(p)
    \/ \E p \in Procs : FetchSecret(p)
    \/ \E p \in Procs : NextPage(p)
    \/ \E p \in Procs : Describe(p)
    \/ \E p \in Procs : Upsert(p)
    \/ Tick

Spec == Init /\ [][Next]_vars

\* a record of the catalog is for the domain: as primary or alternate domain
RecordFor(rec, domain) == rec.domain = domain \/ domain \in rec.sans

\* One worker, one unchanged secret, and a store and an ACM whose calls do not
\* fail: the reconciliations of the secret follow one another
InitRepeat ==
    /\ variant = "lookahead"
    /\ workers = 1
    /\ reliable = TRUE
    /\ now = 0
    /\ catalog \in CatalogInputs
    /\ store \in StoreInputs
    /\ InitLocals

SpecRepeat == InitRepeat /\ [][Next]_vars

\* the catalogs of one record that the Locator returns for d1 and that is past
\* its expiry
DueCatalogs ==
    { c \in CatalogsOfLen(1) : Listed(c[1]) /\ "d1" \in c[1].sans /\ c[1].notAfter = <<0>> }

\* splitCertificateChain on every tls.crt of at most MaxPem parts: the secret
\* "a" is eligible and holds any such sequence
PemStores ==
    { [n \in Names |-> IF n = "a"
                       THEN MkSecret("a", SecretTypeTLS, EligibleAnnotations("d1"), crt)
                       ELSE NoSecret] :
        crt \in PemSeqs(MaxPem) }

InitSplit ==
    /\ variant = "lookahead"
    /\ workers = 1
    /\ reliable = FALSE
    /\ now = 0
    /\ catalog \in CatalogsOfLen(0) \cup DueCatalogs
    /\ store \in PemStores
    /\ InitLocals

SpecSplit == InitSplit /\ [][Next]_vars

\* One worker (SetupWithManager sets no MaxConcurrentReconciles) reconciling
\* two secrets for the domain d1 in any order, one reconciliation at a time,
\* from an empty catalog or from one whose record for d1 is due for replacement
InitShared ==
    /\ variant = "lookahead"
    /\ workers = 1
    /\ reliable = FALSE
    /\ now = 0
    /\ catalog \in CatalogsOfLen(0) \cup DueCatalogs
    /\ store \in PairedStores
    /\ InitLocals

SpecShared == InitShared /\ [][Next]_vars

\* the steps of the reconciliation p after its entry
Step(p) == FetchSecret(p) \/ NextPage(p) \/ Describe(p) \/ Upsert(p)

\* Reconcile runs on a goroutine of its own and its calls return: a
\* reconciliation that can take a step takes it
\* One worker of either controller, from the catalogs whose records all carry
\* the expiry 0
InitLive ==
    /\ variant \in Variants
    /\ workers = 1
    /\ reliable = FALSE
    /\ now = 0
    /\ catalog \in { c \in CatalogInputs : \A i \in 1..Len(c) : c[i].notAfter = <<0>> }
    /\ store \in StoreInputs
    /\ InitLocals

SpecLive == InitLive /\ [][Next]_vars /\ \A p \in Procs : WF_vars(Step(p))

----------------------------------------------------------------------------
(* Properties *)

ImportCalls(p) == SelectSeq(calls[p], LAMBDA c : c.op = "import")

FailedCalls(p, ops) == SelectSeq(calls[p], LAMBDA c : c.op \in ops /\ ~c.ok)

\* the reconciliation p runs the lookahead controller, its Locator returned a
\* record with an expiry timestamp and its bundle was split
LocatedWithExpiry(p) ==
    /\ variant = "lookahead"
    /\ located[p] = "found"
    /\ bundle[p].err = NoErr
    /\ existing[p][1].NotAfter # <<>>
    /\ decidedAt[p] # <<>>

\* the reconciliation p is about to send, or has sent, exactly one import
\* and that import carries the identifier of the located record
Replaces(p) ==
    \/ pc[p] = "updateToAcm" /\ ImportCalls(p) = <<>>
    \/ /\ pc[p] = "done"
       /\ Len(ImportCalls(p)) = 1
       /\ ImportCalls(p)[1].arn = <<existing[p][1].CertificateArn>>

\* C1: a located record whose expiry is at or before now + 72h (the boundary
\* included) is always replaced: an import carrying its identifier is issued.
C1_ExpiringIsReplaced ==
    \A p \in Procs :
        (LocatedWithExpiry(p) /\ existing[p][1].NotAfter[1] <= decidedAt[p][1] + Lookahead)
            => Replaces(p)

\* C2: when the traversal succeeds and some candidate record has the requested
\* domain as primary domain or among its alternate domains, the Locator
\* returns a record.
C2_LocatorFindsMatch ==
    \A p \in Procs :
        (/\ located[p] \in {"found", "absent"}
         /\ catalog = catalog0[p]
         /\ \E i \in 1..Len(catalog) :
                Listed(catalog[i]) /\ RecordFor(catalog[i], domainName[p]))
            => located[p] = "found"

\* C3: when the Locator reports absence and the bundle splits, exactly one
\* import is issued, it carries no identifier, and when it succeeds Reconcile
\* returns requeue-after 24h without error.
C3_AbsentMeansCreate ==
    \A p \in Procs :
        (variant = "lookahead" /\ located[p] = "absent" /\ bundle[p].err = NoErr)
            => \/ pc[p] = "importToAcm" /\ ImportCalls(p) = <<>>
               \/ /\ pc[p] = "done"
                  /\ Len(ImportCalls(p)) = 1
                  /\ ImportCalls(p)[1].arn = <<>>
                  /\ ImportCalls(p)[1].input[1].CertificateArn = <<>>
                  /\ ImportCalls(p)[1].ok => result[p] = Result(LongRecheck, NoErr)

C3_Witness ==
    \E p \in Procs :
        /\ variant = "lookahead" /\ located[p] = "absent" /\ bundle[p].err = NoErr
        /\ pc[p] = "done"
        /\ Len(ImportCalls(p)) = 1 /\ ImportCalls(p)[1].ok
        /\ Len(catalog) = Len(catalog0[p]) + 1
        /\ result[p] = Result(LongRecheck, NoErr)

\* C4: a located record that expires strictly more than 72h after now is left
\* alone: no import is issued, the catalog is as it was when the reconciliation
\* began, and Reconcile returns requeue-after 24h without error.
C4_ValidIsLeftAlone ==
    \A p \in Procs :
        (LocatedWithExpiry(p) /\ existing[p][1].NotAfter[1] > decidedAt[p][1] + Lookahead)
            => /\ pc[p] = "done"
               /\ ImportCalls(p) = <<>>
               /\ catalog = catalog0[p]
               /\ result[p] = Result(LongRecheck, NoErr)

C4_Witness ==
    \E p \in Procs :
        /\ LocatedWithExpiry(p)
        /\ existing[p][1].NotAfter[1] = decidedAt[p][1] + Lookahead + 1
        /\ pc[p] = "done"
        /\ result[p] = Result(LongRecheck, NoErr)

\* C5: when a page fetch or a detail fetch fails, the Locator returns an error
\* and no record, no import is issued, and Reconcile returns that error with
\* requeue-after 5 minutes.
C5_FailedTraversalIsUnknown ==
    \A p \in Procs :
        (variant = "lookahead" /\ FailedCalls(p, {"list", "describe"}) # <<>>)
            => /\ located[p] = "error"
               /\ existing[p] = <<>>
               /\ pc[p] = "done"
               /\ ImportCalls(p) = <<>>
               /\ result[p].requeueAfter = ShortRetry
               /\ result[p].err.step \in {"list", "describe"}

C5_Witness ==
    \E p \in Procs :
        /\ variant = "lookahead"
        /\ Len(calls[p]) > 2
        /\ calls[p][Len(calls[p])].op = "describe"
        /\ ~calls[p][Len(calls[p])].ok
        /\ result[p] = Result(ShortRetry, Err("describe", "failure"))

\* a fetched secret fails one of the three eligibility conditions
Ineligible(s) ==
    \/ ~(<<SyncAnnotation, "true">> \in s.Annotations)
    \/ s.Type # "kubernetes.io/tls"
    \/ \A kv \in s.Annotations : kv[1] = CommonNameAnnotation => kv[2] = ""

\* C6: a fetched secret whose sync annotation is not "true", whose type is not
\* the TLS type or whose common-name annotation is missing or empty makes
\* Reconcile return no-requeue without error, with no remote call.
C6_IneligibleIsSilentSkip ==
    \A p \in Procs :
        (got[p] = "found" /\ Ineligible(secret[p]))
            => /\ pc[p] = "done"
               /\ result[p] = Result(NoRequeue, NoErr)
               /\ calls[p] = <<>>
               /\ catalog = catalog0[p]

C6_Witness ==
    \E p \in Procs :
        /\ got[p] = "found"
        /\ secret[p].Type = SecretTypeTLS
        /\ <<SyncAnnotation, "true">> \in secret[p].Annotations
        /\ <<CommonNameAnnotation, "">> \in secret[p].Annotations
        /\ pc[p] = "done"
        /\ Len(catalog) > 0

\* C7: when the secret store answers NotFound, Reconcile returns no-requeue
\* without error and makes no remote call.
C7_DeletedSecretIsNoOp ==
    \A p \in Procs :
        got[p] = "notfound"
            => /\ pc[p] = "done"
               /\ result[p] = Result(NoRequeue, NoErr)
               /\ calls[p] = <<>>
               /\ catalog = catalog0[p]

C7_Witness ==
    \E p \in Procs :
        /\ got[p] = "notfound"
        /\ store[req[p]] = NoSecret
        /\ pc[p] = "done"
        /\ Len(catalog) > 0

\* C8: every failing step (fetching the secret, the Locator, the Splitter, the
\* upsert) returns its error with requeue-after 5 minutes.
C8_FailureRequestsShortRetry ==
    \A p \in Procs :
        (/\ variant = "lookahead"
         /\ pc[p] = "done"
         /\ result[p].err.step \in {"get", "list", "describe", "split", "import"})
            => result[p].requeueAfter = ShortRetry

\* C9: when a remote call is aborted by cancellation, Reconcile returns the
\* cancellation error with no requeue-after.
C9_CancellationSchedulesNoRetry ==
    \A p \in Procs :
        (/\ variant = "lookahead"
         /\ pc[p] = "done"
         /\ result[p].err.step \in {"list", "describe", "import"}
         /\ result[p].err.cause = "canceled")
            => result[p].requeueAfter = NoRequeue

\* the CERTIFICATE blocks of a PEM byte sequence, in the order they occur
CertBlocksOf(crt) == SelectSeq(crt, LAMBDA part : part.Type = "CERTIFICATE")

\* the secret passes the eligibility filter and its leaf certificate is issued
\* for the domain the secret is annotated with
CertifiesItsDomain(s) ==
    /\ s # NoSecret
    /\ ~Ineligible(s)
    /\ CertBlocksOf(s.Data.crt) # <<>>
    /\ <<CommonNameAnnotation, CertSubject(CertBlocksOf(s.Data.crt)[1].Bytes).cn>>
           \in s.Annotations

\* C11: an eligible, unchanged secret reconciled any number of times one after
\* another, with no failing call and no other writer of the catalog, has at
\* most one record created for it (at most one import without identifier
\* succeeds), and a record it imported has the primary and alternate domains
\* of its leaf certificate.
C11_RepeatIsIdempotent ==
    \A n \in Names :
        (reliable /\ workers = 1 /\ CertifiesItsDomain(store[n]))
            => /\ created[n] <= 1
               /\ \A i \in 1..Len(catalog) :
                    catalog[i].tags = <<[Key |-> "kubernetes-secrets", Value |-> "ns/" \o n]>>
                        => LET subj == CertSubject(CertBlocksOf(store[n].Data.crt)[1].Bytes)
                           IN catalog[i].domain = subj.cn /\ catalog[i].sans = subj.sans

\* the step is the return of a pass of the lookahead controller that ends
\* without error and asks for the next pass 24h later
SuccessfulPassEnds(p) ==
    /\ variant = "lookahead"
    /\ pc[p] # "done"
    /\ pc'[p] = "done"
    /\ result'[p] = Result(LongRecheck, NoErr)

\* C12 as stated: when a pass of a secret succeeds and the next pass follows
\* 24h later, no listed record for the secret's domain has its expiry between
\* the two passes unless the pass replaced it.
C12_NoRecordExpiresBetweenPasses ==
    [][\A p \in Procs :
         SuccessfulPassEnds(p)
             => \A i \in 1..Len(catalog') :
                  (/\ Listed(catalog'[i])
                   /\ RecordFor(catalog'[i], domainName[p])
                   /\ catalog'[i].notAfter # <<>>)
                      => ~(/\ now < catalog'[i].notAfter[1]
                           /\ catalog'[i].notAfter[1] <= now + LongRecheck)]_vars

\* C12: with the 72h lookahead and the 24h re-check, the record the Locator
\* returned and a successful pass left untouched is still unexpired when the
\* next pass is due: its expiry is later than the time of the expiry test plus
\* the returned requeue-after, which is 24h.
C12_UntouchedOutlivesRecheck ==
    \A p \in Procs :
        (/\ LocatedWithExpiry(p)
         /\ pc[p] = "done"
         /\ result[p].err = NoErr
         /\ ImportCalls(p) = <<>>)
            => /\ result[p].requeueAfter = LongRecheck
               /\ existing[p][1].NotAfter[1] > decidedAt[p][1] + result[p].requeueAfter

C12_Witness ==
    \E p \in Procs :
        /\ LocatedWithExpiry(p)
        /\ pc[p] = "done"
        /\ result[p] = Result(LongRecheck, NoErr)
        /\ ImportCalls(p) = <<>>
        /\ catalog = catalog0[p]
        /\ existing[p][1].NotAfter[1] = decidedAt[p][1] + Lookahead
        /\ existing[p][1].NotAfter[1] > now + LongRecheck

\* the reconciliation p of the lookahead controller fetched a secret that
\* passes the eligibility filter and whose tls.crt has no CERTIFICATE block
HoldsNoCertificate(p) ==
    /\ variant = "lookahead"
    /\ got[p] = "found"
    /\ ~Ineligible(secret[p])
    /\ \A i \in 1..Len(secret[p].Data.crt) : secret[p].Data.crt[i].Type # "CERTIFICATE"

\* C13: a secret whose tls.crt holds no CERTIFICATE block is never imported:
\* no import call is issued or pending and the catalog stays as it was, and
\* once the Locator has returned, with a record or with none, Reconcile has
\* returned the Splitter's error with requeue-after 5 minutes.
C13_MalformedIsNeverImported ==
    \A p \in Procs :
        HoldsNoCertificate(p)
            => /\ ImportCalls(p) = <<>>
               /\ pc[p] \notin {"importToAcm", "updateToAcm"}
               /\ catalog = catalog0[p]
               /\ located[p] \in {"found", "absent"}
                    => /\ pc[p] = "done"
                       /\ result[p].requeueAfter = ShortRetry
                       /\ result[p].err = [step |-> "split",
                                           cause |-> "no certificates found in PEM data"]

C13_Witness ==
    \E p \in Procs :
        /\ HoldsNoCertificate(p)
        /\ located[p] = "found"
        /\ existing[p][1].NotAfter = <<0>>
        /\ pc[p] = "done"
        /\ result[p].err.step = "split"
        /\ result[p].requeueAfter = ShortRetry

\* C14: for a tls.crt with at least one CERTIFICATE block, splitCertificateChain
\* returns no error, the leaf is the encoding of the first CERTIFICATE block
\* and the chain is the encodings of the later CERTIFICATE blocks in their
\* order, empty when there is none; parts of any other type, wherever they
\* stand, have no effect on either.
C14_SplitterResult ==
    \A p \in Procs :
        (/\ variant = "lookahead"
         /\ located[p] \in {"found", "absent"}
         /\ \E i \in 1..Len(secret[p].Data.crt) : secret[p].Data.crt[i].Type = "CERTIFICATE")
            => LET certs == CertBlocksOf(secret[p].Data.crt) IN
               /\ bundle[p].err = NoErr
               /\ bundle[p].leafCertPEM = <<certs[1]>>
               /\ bundle[p].chainPEM = SubSeq(certs, 2, Len(certs))
               /\ Len(certs) = 1 => bundle[p].chainPEM = <<>>

C14_Witness ==
    \E p \in Procs :
        /\ variant = "lookahead"
        /\ located[p] \in {"found", "absent"}
        /\ secret[p].Data.crt = <<KeyBlock, LeafCN, IssuerCA>>
        /\ bundle[p].leafCertPEM = <<LeafCN>>
        /\ bundle[p].chainPEM = <<IssuerCA>>

\* the catalog with the tags of every record removed
StripTags(cat) == [i \in 1..Len(cat) |-> [cat[i] EXCEPT !.tags = <<>>]]

\* the listed records of a catalog with the domain among their alternate domains
AlternateMatches(cat, domain) ==
    { i \in 1..Len(cat) : Listed(cat[i]) /\ domain \in cat[i].sans }

\* the identifier of the first of them: <<>> when there is none
FirstAlternateMatch(cat, domain) ==
    IF AlternateMatches(cat, domain) = {} THEN <<>>
    ELSE <<cat[CHOOSE i \in AlternateMatches(cat, domain) :
                 \A j \in AlternateMatches(cat, domain) : i <= j].arn>>

\* the identifier of the record the Locator of p returned: <<>> for nil
LocatedArn(p) ==
    IF existing[p] = <<>> THEN <<>> ELSE <<existing[p][1].CertificateArn>>

\* C15: every import call of a reconciliation, with or without identifier,
\* carries exactly one tag, with key kubernetes-secrets and the value
\* "<namespace>/<name>" of the secret that reconciliation was invoked for, also
\* when the catalog holds records tagged by another secret; and what the
\* Locator returns is what it would return on the same catalog without any tag.
C15_UpsertCarriesOwnershipTag ==
    \A p \in Procs :
        /\ \A i \in 1..Len(ImportCalls(p)) :
             /\ Len(ImportCalls(p)[i].input[1].Tags) = 1
             /\ ImportCalls(p)[i].input[1].Tags[1] =
                    [Key |-> "kubernetes-secrets", Value |-> "ns/" \o req[p]]
        /\ (located[p] \in {"found", "absent"} /\ catalog = catalog0[p])
              => LocatedArn(p) = FirstAlternateMatch(StripTags(catalog0[p]), domainName[p])

C15_Witness ==
    \E p \in Procs :
        /\ req[p] = "b"
        /\ pc[p] = "done"
        /\ catalog0[p] # <<>>
        /\ catalog0[p][1].tags = <<[Key |-> "kubernetes-secrets", Value |-> "ns/a"]>>
        /\ Len(ImportCalls(p)) = 1
        /\ ImportCalls(p)[1].ok
        /\ catalog[Len(catalog)].tags = <<[Key |-> "kubernetes-secrets", Value |-> "ns/b"]>>
        /\ catalog[1].tags = catalog0[p][1].tags

\* no candidate record of the catalog has the domain as primary domain or
\* among its alternate domains
NoCandidateFor(cat, domain) ==
    \A i \in 1..Len(cat) : Listed(cat[i]) => ~RecordFor(cat[i], domain)

\* C16: the Locator returns 'absent' exactly when its traversal visited every
\* page without a failing call and no candidate record has the requested
\* domain as primary domain or among its alternate domains.
C16_AbsentOnlyWhenNothingMatches ==
    \A p \in Procs :
        (workers = 1 /\ located[p] # "pending")
            => (located[p] = "absent"
                  <=> /\ FailedCalls(p, {"list", "describe"}) = <<>>
                      /\ NoCandidateFor(catalog0[p], domainName[p]))

\* the identifiers (<<>> for none) of the imports the reconciliation p has
\* issued or is about to issue
ImportsOf(p) ==
    { ImportCalls(p)[i].arn : i \in 1..Len(ImportCalls(p)) }
    \cup (IF pc[p] = "importToAcm" THEN {<<>>}
          ELSE IF pc[p] = "updateToAcm" THEN {<<existing[p][1].CertificateArn>>}
          ELSE {})

\* the record the Locator of p returned had expired when Reconcile tested it
LocatedHasExpired(p) ==
    /\ located[p] = "found"
    /\ existing[p][1].NotAfter # <<>>
    /\ decidedAt[p] # <<>>
    /\ existing[p][1].NotAfter[1] < decidedAt[p][1]

\* C17: in the strict-expiry controller, for an eligible secret and a
\* successful traversal: when no certificate for the domain exists in ACM one
\* import without identifier is issued; when the matching certificate's
\* NotAfter is strictly before now one import with its ARN is issued; in every
\* other case, however soon the certificate expires, no import is issued.
C17_StrictImportsNewOrExpired ==
    \A p \in Procs :
        (variant = "strict" /\ workers = 1 /\ located[p] \in {"found", "absent"})
            => ImportsOf(p) =
                   IF NoCandidateFor(catalog0[p], domainName[p]) THEN {<<>>}
                   ELSE IF LocatedHasExpired(p) THEN {<<existing[p][1].CertificateArn>>}
                   ELSE {}

\* the candidate records of a catalog that match the domain, by primary
\* domain or by an alternate domain
CandidateMatches(cat, domain) ==
    { i \in 1..Len(cat) : Listed(cat[i]) /\ RecordFor(cat[i], domain) }

\* C18: when several candidate records match the requested domain and the
\* traversal does not fail, the Locator returns the one that comes first in
\* the listing order, and an import with identifier carries its identifier.
C18_FirstMatchWins ==
    \A p \in Procs :
        (/\ workers = 1
         /\ located[p] \in {"found", "absent"}
         /\ Cardinality(CandidateMatches(catalog0[p], domainName[p])) >= 2)
            => LET m == CandidateMatches(catalog0[p], domainName[p])
                   first == CHOOSE i \in m : \A j \in m : i <= j
               IN /\ located[p] = "found"
                  /\ existing[p][1].CertificateArn = catalog0[p][first].arn
                  /\ ImportsOf(p) \subseteq {<<catalog0[p][first].arn>>}

\* C19 as stated: the payload is split before any remote catalog call, so the
\* reconciliation of a secret whose tls.crt has no CERTIFICATE block issues no
\* list and no describe call.
C19_SplitBeforeLocate ==
    \A p \in Procs :
        HoldsNoCertificate(p)
            => \A i \in 1..Len(calls[p]) : calls[p][i].op \notin {"list", "describe"}

\* C19: the steps of one reconciliation run in the order fetch, eligibility
\* filter, locate, split, decide, upsert.  Remote calls are issued only for a
\* fetched, eligible secret and begin with a list call; the payload is split
\* only once the Locator has returned without error, so a secret with no
\* CERTIFICATE block has its catalog listed before the Splitter's error is
\* returned; an import call is the last call, after a split without error.
C19_LocateThenSplit ==
    \A p \in Procs :
        variant = "lookahead"
            => /\ calls[p] # <<>>
                    => /\ got[p] = "found" /\ ~Ineligible(secret[p])
                       /\ calls[p][1].op = "list"
               /\ bundle[p] # NoBundle
                    => /\ located[p] \in {"found", "absent"}
                       /\ FailedCalls(p, {"list", "describe"}) = <<>>
               /\ (HoldsNoCertificate(p) /\ pc[p] = "done")
                    => /\ calls[p] # <<>>
                       /\ calls[p][1].op = "list"
                       /\ result[p].err.step \in {"list", "describe", "split"}
               /\ \A i \in 1..Len(calls[p]) :
                    calls[p][i].op = "import"
                        => /\ i = Len(calls[p])
                           /\ located[p] \in {"found", "absent"}
                           /\ bundle[p].err = NoErr
                           /\ bundle[p].leafCertPEM # <<>>

C19_Witness ==
    \E p \in Procs :
        /\ HoldsNoCertificate(p)
        /\ pc[p] = "done"
        /\ result[p].err.step = "split"
        /\ Len(calls[p]) = 2
        /\ calls[p][1].op = "list" /\ calls[p][1].ok
        /\ calls[p][2].op = "describe" /\ calls[p][2].ok

\* the reconciliation p of an eligible secret has returned
EligibleDone(p) ==
    /\ pc[p] = "done"
    /\ got[p] = "found"
    /\ ~Ineligible(secret[p])

\* C20: every reconciliation of an eligible secret that ends without error,
\* after a create, a replace or no action, returns requeue-after 24h, and 24h
\* is never returned together with an error.
C20_SuccessAlwaysLongRecheck ==
    \A p \in Procs :
        EligibleDone(p)
            => /\ result[p].err = NoErr => result[p].requeueAfter = LongRecheck
               /\ result[p].requeueAfter = LongRecheck => result[p].err = NoErr

\* C21: one reconciliation of the lookahead controller issues at most one
\* import call; an import is issued or pending only when the secret was
\* fetched and passes the three eligibility checks, the Locator returned
\* without a failed call and the bundle split without error; and a failed
\* import is the last call: Reconcile has returned its error.
C21_AtMostOneGuardedImport ==
    \A p \in Procs :
        variant = "lookahead"
            => /\ Len(ImportCalls(p)) <= 1
               /\ pc[p] \in {"importToAcm", "updateToAcm"} => ImportCalls(p) = <<>>
               /\ (ImportCalls(p) # <<>> \/ pc[p] \in {"importToAcm", "updateToAcm"})
                    => /\ got[p] = "found"
                       /\ ~Ineligible(secret[p])
                       /\ located[p] \in {"found", "absent"}
                       /\ FailedCalls(p, {"list", "describe"}) = <<>>
                       /\ bundle[p].err = NoErr
                       /\ CertBlocksOf(secret[p].Data.crt) # <<>>
               /\ FailedCalls(p, {"import"}) # <<>>
                    => /\ ~calls[p][Len(calls[p])].ok
                       /\ calls[p][Len(calls[p])].op = "import"
                       /\ pc[p] = "done"
                       /\ result[p].err.step = "import"
                       /\ catalog = catalog0[p]

C21_Witness ==
    \E p \in Procs :
        /\ variant = "lookahead"
        /\ Len(ImportCalls(p)) = 1
        /\ ~ImportCalls(p)[1].ok
        /\ ImportCalls(p)[1].arn # <<>>
        /\ pc[p] = "done"
        /\ result[p] = Result(ShortRetry, Err("import", "failure"))

\* C22: in either controller a located record without expiry timestamp
\* (NotAfter nil) is treated as valid when the secret's bundle is good: no
\* import is issued for it, the catalog stays as it was, and Reconcile returns
\* requeue-after 24h without error.
C22_NoExpiryIsValid ==
    \A p \in Procs :
        (/\ located[p] = "found"
         /\ existing[p][1].NotAfter = <<>>
         /\ bundle[p].err = NoErr)
            => /\ pc[p] = "done"
               /\ ImportCalls(p) = <<>>
               /\ catalog = catalog0[p]
               /\ result[p] = Result(LongRecheck, NoErr)

ListCalls(p) == SelectSeq(calls[p], LAMBDA c : c.op = "list")

DescribeCalls(p) == SelectSeq(calls[p], LAMBDA c : c.op = "describe")

\* the number of pages ListCertificates cuts n summaries into
PagesOf(n) == IF n = 0 THEN 1 ELSE (n + PageSize - 1) \div PageSize

\* the traversal of the reconciliation p, one worker running: no page is
\* fetched twice, the i-th detail fetch is for the i-th summary, a failed
\* fetch is the last call, and once the Locator has returned no fetch follows
TraversalIsBounded(p) ==
    LET cands == Candidates(catalog0[p])
        fetches == SelectSeq(calls[p], LAMBDA c : c.op \in {"list", "describe"})
    IN /\ Len(ListCalls(p)) <= PagesOf(Len(cands))
       /\ Len(DescribeCalls(p)) <= Len(cands)
       /\ \A i \in 1..Len(DescribeCalls(p)) : DescribeCalls(p)[i].arn = <<cands[i].arn>>
       /\ \A i \in 1..Len(fetches) : ~fetches[i].ok => i = Len(fetches)
       /\ located[p] # "pending" => pc[p] \notin {"list", "describe"}
       /\ located[p] = "error" => ~fetches[Len(fetches)].ok
       /\ located[p] = "found"
            => /\ fetches[Len(fetches)].op = "describe"
               /\ fetches[Len(fetches)].arn = <<existing[p][1].CertificateArn>>
               /\ \A i \in 1..(Len(DescribeCalls(p)) - 1) :
                    domainName[p] \notin cands[i].sans
       /\ located[p] = "absent"
            => /\ Len(ListCalls(p)) = PagesOf(Len(cands))
               /\ Len(DescribeCalls(p)) = Len(cands)

\* C23: the traversal of findSecretByDomain ends on every finite catalog: each
\* page is fetched at most once and each summary described at most once, the
\* traversal stops at the first match or the first failed fetch, and every
\* reconciliation that was started returns.
C23_TraversalTerminates ==
    /\ [](\A p \in Procs : workers = 1 => TraversalIsBounded(p))
    /\ \A p \in Procs : (pc[p] \notin Idle) ~> (pc[p] \in Idle)

C23_Witness ==
    \E p \in Procs :
        /\ Len(Candidates(catalog0[p])) = 2
        /\ Len(ListCalls(p)) = PagesOf(2)
        /\ Len(DescribeCalls(p)) = 2
        /\ located[p] = "absent"
        /\ pc[p] = "done"

====
